---------------------------- MODULE Spec2Model ----------------------------
(***************************************************************************)
(* A model of the CHIP-8 execution engine of src/src/cpu.rs: Cpu::new and  *)
(* one iteration of the loop of Cpu::run per Cycle step; of the countdown  *)
(* Timer of src/src/timers.rs; and of the renderer's handling of display   *)
(* snapshots in src/src/graphics.rs.  Spec is the engine alone; SpecKeys,  *)
(* SpecTimer, SpecRender, SpecPace, SpecDrop and SpecCounters put a second *)
(* thread beside it.                                                       *)
(*                                                                         *)
(* Representation.  A u8 / u16 / usize is an integer kept in its range by  *)
(* the arithmetic of the code (wrapping_add, overflowing_add, ...).  A u64 *)
(* display row is the set of its set bit positions, 0..63, bit 63 being    *)
(* the most significant bit (the leftmost pixel).  The byte array memory   *)
(* is the function from the addresses of its nonzero bytes to their        *)
(* values: MemRead gives the byte at any address of the array.             *)
(***************************************************************************)
EXTENDS Integers, Sequences, FiniteSets

VARIABLES
    state,               \* "new" | "init_error" | "running" | "panicked"
    program,             \* the Vec<u8> handed to Cpu::new
    init_error,          \* the InitCpuError returned by Cpu::new, or NoError
    memory,              \* Cpu.memory
    screen_pixels,       \* Cpu.screen_pixels
    keypad_state,        \* Cpu.keypad_state
    program_counter,     \* Cpu.program_counter
    index_register,      \* Cpu.index_register
    stack,               \* Cpu.stack
    variable_registers,  \* Cpu.variable_registers
    instruction,         \* the local `instruction` of the last cycle of Cpu::run
    panic,               \* the panic that ended Cpu::run, or NoPanic
    cpu_io_events,       \* the messages in flight to Cpu.cpu_io_receiver
    screen_updates,      \* the messages in flight from Cpu.screen_update_sender
    receiver_alive,      \* whether the Receiver<CpuScreenMem> still exists
    prev,                \* history: the Cpu's fields when the last cycle began
    phase,               \* where Cpu::run stands in its iteration: "drain" |
                         \* "execute" | "pace" | "sleep"
    elapsed,             \* the local `elapsed` of Cpu::run, in nanoseconds
    timer_sound,         \* Timer.sound
    timer_value,         \* the u8 inside Timer.value
    timer_lock,          \* whether the Mutex of Timer.value is locked
    timer_pc,            \* where Timer::run stands
    current_value,       \* the local `current_value` of Timer::run
    sink_paused,         \* sound_sink.is_paused()
    holder_pc,           \* where the holder of get_value_arc() stands
    timer_written,       \* history: the last value the holder stored
    timer_ticks,         \* history: the decrement blocks run since that store
    screen_texture       \* the bytes last written to Graphics.screen_texture

cpuVars == <<state, program, init_error, memory, screen_pixels, keypad_state,
             program_counter, index_register, stack, variable_registers,
             instruction, panic, cpu_io_events, screen_updates, receiver_alive,
             prev, phase, elapsed>>

timerVars == <<timer_sound, timer_value, timer_lock, timer_pc, current_value,
               sink_paused, holder_pc, timer_written, timer_ticks>>

vars == <<cpuVars, timerVars, screen_texture>>

(***************************************************************************)
(* Program constants.                                                      *)
(***************************************************************************)
MEMORY_SIZE == 4096
PROGRAM_INIT_LOAD_POS == 512
MAX_ALLOWED_PROGRAM_SIZE == MEMORY_SIZE - PROGRAM_INIT_LOAD_POS
FONT_START_POS == 80
FONT_END_POS == 159
SCREEN_ROWS == 32

FONT ==
    << 240, 144, 144, 144, 240,
        32,  96,  32,  32, 112,
       240,  16, 240, 128, 240,
       240,  16, 240,  16, 240,
       144, 144, 240,  16,  16,
       240, 128, 240,  16, 240,
       240, 128, 240, 144, 240,
       240,  16,  32,  64,  64,
       240, 144, 240, 144, 240,
       240, 144, 240,  16, 240,
       240, 144, 240, 144, 144,
       224, 144, 224, 144, 224,
       240, 128, 128, 128, 240,
       224, 144, 144, 144, 224,
       240, 128, 240, 128, 240,
       240, 128, 240, 128, 128 >>

(***************************************************************************)
(* Bounds of the model.                                                    *)
(***************************************************************************)
MaxOver == 1      \* program lengths reach MAX_ALLOWED_PROGRAM_SIZE + MaxOver
MaxStack == 17    \* a call is explored while the stack holds fewer entries

(***************************************************************************)
(* Fixed-width integers.                                                   *)
(***************************************************************************)
Bit(v, i) == (v \div (2 ^ i)) % 2

RECURSIVE BitAnd(_, _, _)
BitAnd(a, b, w) ==
    IF w = 0 THEN 0
    ELSE (a % 2) * (b % 2) + 2 * BitAnd(a \div 2, b \div 2, w - 1)

RECURSIVE BitOr(_, _, _)
BitOr(a, b, w) ==
    IF w = 0 THEN 0
    ELSE (IF (a % 2) + (b % 2) > 0 THEN 1 ELSE 0)
         + 2 * BitOr(a \div 2, b \div 2, w - 1)

RECURSIVE BitXor(_, _, _)
BitXor(a, b, w) ==
    IF w = 0 THEN 0
    ELSE (((a % 2) + (b % 2)) % 2) + 2 * BitXor(a \div 2, b \div 2, w - 1)

\* !a on a w-bit integer
BitNot(a, w) == (2 ^ w) - 1 - a

\* a u8 widened to u64 (`as u64`): the set of its set bit positions
U64OfByte(b) == {i \in 0..7 : Bit(b, i) = 1}

\* u64 << k and u64 >> k, for 0 <= k < 64: bits shifted out are lost
Shl64(s, k) == {i + k : i \in s} \cap (0..63)
Shr64(s, k) == {i - k : i \in s} \cap (0..63)

\* u64 ^ u64 and u64 & u64
Xor64(a, b) == (a \ b) \cup (b \ a)
And64(a, b) == a \cap b

(***************************************************************************)
(* Values that stand for "nothing".                                        *)
(***************************************************************************)
NoInstruction == -1
NoError == [kind |-> "none", actual |-> 0, allowed |-> 0]
NoPanic == [kind |-> "none", instruction |-> NoInstruction]
NoPrev == [program_counter |-> 0, index_register |-> 0, stack |-> <<>>,
           variable_registers |-> <<>>, screen_pixels |-> <<>>,
           keypad_state |-> 0, instruction |-> NoInstruction]

\* the panics of Cpu::run, by their message
P_EMPTY_STACK == "Should not call 0x00EE on an empty stack."
P_MACHINE_CALL == "might be a call to a machine assembly routine"
P_INVALID_8 == "is not a valid 0x8 instruction."
P_INVALID_E == "is not a valid 0xE instruction."
P_SEND == "Update screen failed!"
P_BOUNDS == "index out of bounds"
P_SHIFT == "attempt to shift left with overflow"

Panic(kind, word) == [kind |-> kind, instruction |-> word]

(***************************************************************************)
(* Cpu::new.                                                               *)
(***************************************************************************)
\* a faulty size test: rejects a program of exactly the allowed size
ProgramTooBigOffByOne(p) == Len(p) >= MAX_ALLOWED_PROGRAM_SIZE

\* `program.len() > MAX_ALLOWED_PROGRAM_SIZE`
ProgramTooBig(p) == Len(p) > MAX_ALLOWED_PROGRAM_SIZE

\* the byte of array mem at address a
MemRead(mem, a) == IF a \in DOMAIN mem THEN mem[a] ELSE 0

\* `[0; MEMORY_SIZE]`
ZeroMemory == [a \in {} |-> 0]

\* `mem[start..(start + bytes.len())].copy_from_slice(&bytes)`
CopyFromSlice(mem, start, bytes) ==
    LET CopiedTo == start..(start + Len(bytes) - 1)
        ByteAt(a) == IF a \in CopiedTo THEN bytes[a - start + 1] ELSE MemRead(mem, a)
    IN  [a \in {b \in (DOMAIN mem) \cup CopiedTo : ByteAt(b) # 0} |-> ByteAt(a)]

\* a faulty load: the font is copied one byte too high
LoadedMemoryShifted(p) ==
    CopyFromSlice(CopyFromSlice(ZeroMemory, PROGRAM_INIT_LOAD_POS, p),
                  FONT_START_POS + 1, FONT)

\* memory after the two copies: the program, then the font
LoadedMemory(p) ==
    CopyFromSlice(CopyFromSlice(ZeroMemory, PROGRAM_INIT_LOAD_POS, p),
                  FONT_START_POS, FONT)
ZeroScreen == [r \in 0..(SCREEN_ROWS - 1) |-> {}]
ZeroRegisters == [r \in 0..15 |-> 0]

New ==
    /\ state = "new"
    /\ IF ProgramTooBig(program)
       THEN /\ state' = "init_error"
            /\ init_error' = [kind |-> "ProgramTooBig", actual |-> Len(program),
                              allowed |-> MAX_ALLOWED_PROGRAM_SIZE]
            /\ UNCHANGED <<memory, screen_pixels, keypad_state, program_counter,
                           index_register, stack, variable_registers>>
       ELSE /\ state' = "running"
            /\ memory' = LoadedMemory(program)
            /\ screen_pixels' = ZeroScreen
            /\ keypad_state' = 0
            /\ program_counter' = PROGRAM_INIT_LOAD_POS
            /\ index_register' = 0
            /\ stack' = <<>>
            /\ variable_registers' = ZeroRegisters
            /\ UNCHANGED init_error
    /\ UNCHANGED <<program, instruction, panic, cpu_io_events, screen_updates,
                   receiver_alive, prev, phase, elapsed, timerVars,
                   screen_texture>>

(***************************************************************************)
(* Cpu::run: the keypad.                                                   *)
(***************************************************************************)
\* `1 << key` on a u16: a shift by 16 or more overflows.  A build with
\* overflow checks panics there; a build without shifts by key mod 16.
ShiftOverflows(key) == key >= 16
get_keypad_state_mask(key) == 2 ^ (key % 16)

\* a faulty event handler: a press toggles the bit
ProcessEventToggle(keypad, event) ==
    IF event.kind = "KeyPressed"
    THEN BitXor(keypad, get_keypad_state_mask(event.key), 16)
    ELSE BitAnd(keypad, BitNot(get_keypad_state_mask(event.key), 16), 16)

process_cpu_io_event(keypad, event) ==
    IF event.kind = "KeyPressed"
    THEN BitOr(keypad, get_keypad_state_mask(event.key), 16)
    ELSE BitAnd(keypad, BitNot(get_keypad_state_mask(event.key), 16), 16)

\* `while let Ok(event) = self.cpu_io_receiver.try_recv()`: every pending
\* event, in the order sent; stops at an event whose mask panics.
RECURSIVE DrainEvents(_, _, _)
DrainEvents(keypad, queue, checks) ==
    IF queue = <<>>
    THEN [keypad_state |-> keypad, queue |-> queue, panicked |-> FALSE]
    ELSE IF checks /\ ShiftOverflows(Head(queue).key)
         THEN [keypad_state |-> keypad, queue |-> Tail(queue), panicked |-> TRUE]
         ELSE DrainEvents(process_cpu_io_event(keypad, Head(queue)),
                          Tail(queue), checks)

(***************************************************************************)
(* Cpu::run: fetch and decode.                                             *)
(***************************************************************************)
\* memory[pc] and memory[pc + 1] are both inside the array
FetchInBounds(pc) == pc + 1 < MEMORY_SIZE

Fetch(mem, pc) == ((MemRead(mem, pc) * 256) % 65536) + MemRead(mem, pc + 1)

OpOf(w) == BitAnd(w, 61440, 16) \div 4096
XOf(w) == BitAnd(w, 3840, 16) \div 256
YOf(w) == BitAnd(w, 240, 16) \div 16
NOf(w) == BitAnd(w, 15, 16)
NNOf(w) == BitAnd(w, 255, 16)
NNNOf(w) == BitAnd(w, 4095, 16)

(***************************************************************************)
(* Cpu::run: the opcode handlers.  A handler maps the Cpu's fields c (the  *)
(* program counter already advanced) to an outcome: the new fields, the    *)
(* local `skip`, whether send_screen_update is called, and the panic.      *)
(***************************************************************************)
V(c, i) == c.variable_registers[i]
SetReg(c, i, v) == [c EXCEPT !.variable_registers[i] = v]

Done(c) == [cpu |-> c, skip |-> FALSE, send |-> FALSE, panic |-> NoPanic]
Skip(c, cond) == [cpu |-> c, skip |-> cond, send |-> FALSE, panic |-> NoPanic]
Sent(c) == [cpu |-> c, skip |-> FALSE, send |-> TRUE, panic |-> NoPanic]
Fatal(c, kind, word) ==
    [cpu |-> c, skip |-> FALSE, send |-> FALSE, panic |-> Panic(kind, word)]

WrappingAdd(a, b) == (a + b) % 256
WrappingSub(a, b) == (a - b + 256) % 256

\* 00E0
\* a faulty 00E0: the cleared display is not sent
ClearScreenSilent(c) == Done([c EXCEPT !.screen_pixels = ZeroScreen])

\* a faulty 00E0: the top row is left as it is
ClearScreenKeepsTopRow(c) ==
    Sent([c EXCEPT !.screen_pixels =
             [r \in 0..(SCREEN_ROWS - 1) |->
                 IF r = 0 THEN c.screen_pixels[0] ELSE {}]])

ClearScreen(c) == Sent([c EXCEPT !.screen_pixels = ZeroScreen])

\* a faulty return: an empty stack yields address 0 instead of a panic
ReturnUnchecked(c) ==
    IF c.stack = <<>>
    THEN Done([c EXCEPT !.program_counter = 0])
    ELSE Done([c EXCEPT !.program_counter = c.stack[Len(c.stack)],
                        !.stack = SubSeq(c.stack, 1, Len(c.stack) - 1)])

\* 00EE: `self.stack.pop().expect(..) as usize`
Return(c) ==
    IF c.stack = <<>>
    THEN Fatal(c, P_EMPTY_STACK, NoInstruction)
    ELSE Done([c EXCEPT !.program_counter = c.stack[Len(c.stack)],
                        !.stack = SubSeq(c.stack, 1, Len(c.stack) - 1)])

\* a faulty 0NNN: decoded by its low byte
Op0ByLowByte(c, w) ==
    IF NNOf(w) = 224 THEN ClearScreen(c)
    ELSE IF NNOf(w) = 238 THEN Return(c)
    ELSE Fatal(c, P_MACHINE_CALL, w)

Op0(c, w) ==
    IF NNNOf(w) = 224 THEN ClearScreen(c)
    ELSE IF NNNOf(w) = 238 THEN Return(c)
    ELSE Fatal(c, P_MACHINE_CALL, w)

\* a faulty 1NNN: the address is added to as if pc were advanced after it
JumpPlusTwo(c, w) == Done([c EXCEPT !.program_counter = NNNOf(w) + 2])

\* 1NNN
Jump(c, w) == Done([c EXCEPT !.program_counter = NNNOf(w)])

\* a faulty call: pushes the address of the call, not of its successor
CallPushesOwnAddress(c, w) ==
    Done([c EXCEPT !.stack = Append(c.stack, (c.program_counter - 2) % 65536),
                   !.program_counter = NNNOf(w)])

\* 2NNN: `self.stack.push(self.program_counter as u16)`
Call(c, w) ==
    Done([c EXCEPT !.stack = Append(c.stack, c.program_counter % 65536),
                   !.program_counter = NNNOf(w)])

\* a faulty 4XNN: skips when Vx is at least NN
SkipGeImm(c, w) == Skip(c, V(c, XOf(w)) >= NNOf(w))

\* 3XNN, 4XNN, 5XYn, 9XYn
SkipEqImm(c, w) == Skip(c, V(c, XOf(w)) = NNOf(w))
SkipNeImm(c, w) == Skip(c, V(c, XOf(w)) # NNOf(w))
SkipEqReg(c, w) == Skip(c, V(c, XOf(w)) = V(c, YOf(w)))
SkipNeReg(c, w) == Skip(c, V(c, XOf(w)) # V(c, YOf(w)))

\* a faulty 7XNN: reports the carry in VF
AddImmWithCarry(c, w) ==
    Done(SetReg(SetReg(c, 15, IF V(c, XOf(w)) + NNOf(w) > 255 THEN 1 ELSE 0),
                XOf(w), WrappingAdd(V(c, XOf(w)), NNOf(w))))

\* 6XNN, 7XNN
LoadImm(c, w) == Done(SetReg(c, XOf(w), NNOf(w)))
AddImm(c, w) == Done(SetReg(c, XOf(w), WrappingAdd(V(c, XOf(w)), NNOf(w))))

\* a faulty carry: set already when the sum is 255
AddCarryOffByOne(vx, vy) == IF vx + vy >= 255 THEN 1 ELSE 0

\* 8XY4: overflowing_add, then VF, then Vx
AddCarry(vx, vy) == IF vx + vy > 255 THEN 1 ELSE 0

AddReg(c, x, y) ==
    LET final_value == WrappingAdd(V(c, x), V(c, y))
        overflowed == AddCarry(V(c, x), V(c, y))
    IN  SetReg(SetReg(c, 15, overflowed), x, final_value)

\* 8XY5 and 8XY7: the flag written to VF before the subtraction
SubFlag(minuend, subtrahend) == IF minuend > subtrahend THEN 1 ELSE 0

\* 8XY5: VF first, then Vx from the registers as they are after that write
SubReg(c, x, y) ==
    LET c1 == SetReg(c, 15, SubFlag(V(c, x), V(c, y)))
    IN  SetReg(c1, x, WrappingSub(V(c1, x), V(c1, y)))

\* 8XY7
SubRegReverse(c, x, y) ==
    LET c1 == SetReg(c, 15, SubFlag(V(c, y), V(c, x)))
    IN  SetReg(c1, x, WrappingSub(V(c1, y), V(c1, x)))

\* 8XY6: VF first, then `self.variable_registers[x] >>= 1`
ShiftRight(c, x) ==
    LET c1 == SetReg(c, 15, BitAnd(V(c, x), 1, 8))
    IN  SetReg(c1, x, V(c1, x) \div 2)

\* a faulty 8XYE: the bit shifted out comes back as bit 0
ShiftLeftRotates(c, x) ==
    LET c1 == SetReg(c, 15, BitAnd(V(c, x), 128, 8) \div 128)
    IN  SetReg(c1, x, ((V(c1, x) * 2) % 256) + (V(c1, x) \div 128))

\* 8XYE: VF first, then `self.variable_registers[x] <<= 1`
ShiftLeft(c, x) ==
    LET c1 == SetReg(c, 15, BitAnd(V(c, x), 128, 8) \div 128)
    IN  SetReg(c1, x, (V(c1, x) * 2) % 256)

Op8(c, w) ==
    LET x == XOf(w)
        y == YOf(w)
        n == NOf(w)
    IN  IF n = 0 THEN Done(SetReg(c, x, V(c, y)))
        ELSE IF n = 1 THEN Done(SetReg(c, x, BitOr(V(c, x), V(c, y), 8)))
        ELSE IF n = 2 THEN Done(SetReg(c, x, BitAnd(V(c, x), V(c, y), 8)))
        ELSE IF n = 3 THEN Done(SetReg(c, x, BitXor(V(c, x), V(c, y), 8)))
        ELSE IF n = 4 THEN Done(AddReg(c, x, y))
        ELSE IF n = 5 THEN Done(SubReg(c, x, y))
        ELSE IF n = 6 THEN Done(ShiftRight(c, x))
        ELSE IF n = 7 THEN Done(SubRegReverse(c, x, y))
        ELSE IF n = 14 THEN Done(ShiftLeft(c, x))
        ELSE Fatal(c, P_INVALID_8, w)

\* ANNN, BNNN, CXNN (random_byte: the value of `self.rng.gen::<u8>()`)
LoadIndex(c, w) == Done([c EXCEPT !.index_register = NNNOf(w)])
JumpOffset(c, w) == Done([c EXCEPT !.program_counter = NNNOf(w) + V(c, 0)])
Random(c, w, random_byte) == Done(SetReg(c, XOf(w), BitAnd(random_byte, NNOf(w), 8)))

\* a faulty mask: the bits past column 63 come back at column 0
SpriteMaskWraps(nth_byte, x_start) ==
    {(i + 56 - x_start) % 64 : i \in nth_byte}

\* DXYN: the mask of one sprite byte, `match x_start.cmp(&56)`
SpriteMask(nth_byte, x_start) ==
    IF x_start = 56 THEN nth_byte
    ELSE IF x_start < 56 THEN Shl64(nth_byte, 56 - x_start)
    ELSE Shr64(nth_byte, x_start - 56)

\* a faulty row update: ORs the mask into the row
DrawRowOr(c, y, mask) ==
    LET is_updated == And64(mask, c.screen_pixels[y]) # {}
        c1 == IF is_updated THEN SetReg(c, 15, 1) ELSE c
    IN  [c1 EXCEPT !.screen_pixels[y] = c1.screen_pixels[y] \cup mask]

\* one row of the for_each: collision test, then the XOR
DrawRow(c, y, mask) ==
    LET is_updated == And64(mask, c.screen_pixels[y]) # {}
        c1 == IF is_updated THEN SetReg(c, 15, 1) ELSE c
    IN  [c1 EXCEPT !.screen_pixels[y] = Xor64(c1.screen_pixels[y], mask)]

\* the rows y .. y_start + n - 1 that pass the filter `y < total_len`, in
\* order; a sprite byte read past the end of memory panics at that row
RECURSIVE DrawRows(_, _, _, _, _)
DrawRows(c, x_start, y_start, n, y) ==
    IF y >= y_start + n THEN [cpu |-> c, fault |-> FALSE]
    ELSE IF ~(y < SCREEN_ROWS) THEN DrawRows(c, x_start, y_start, n, y + 1)
    ELSE IF c.index_register + (y - y_start) >= MEMORY_SIZE
         THEN [cpu |-> c, fault |-> TRUE]
         ELSE DrawRows(
                  DrawRow(c, y,
                          SpriteMask(U64OfByte(MemRead(c.memory,
                                                       c.index_register + (y - y_start))),
                                     x_start)),
                  x_start, y_start, n, y + 1)

\* a faulty draw: VF keeps what it held when no row collides
DrawKeepsFlag(c, w) ==
    LET x_start == V(c, XOf(w)) % 64
        y_start == V(c, YOf(w)) % 32
        r == DrawRows(c, x_start, y_start, NOf(w), y_start)
    IN  IF r.fault THEN Fatal(r.cpu, P_BOUNDS, NoInstruction) ELSE Sent(r.cpu)

Draw(c, w) ==
    LET x_start == V(c, XOf(w)) % 64
        y_start == V(c, YOf(w)) % 32
        r == DrawRows(SetReg(c, 15, 0), x_start, y_start, NOf(w), y_start)
    IN  IF r.fault THEN Fatal(r.cpu, P_BOUNDS, NoInstruction) ELSE Sent(r.cpu)

\* a faulty key test: any held key counts
KeyHeldAnyKey(c, key) == c.keypad_state # 0

\* EX9E, EXA1
KeyHeld(c, key) == BitAnd(c.keypad_state, get_keypad_state_mask(key), 16) # 0

\* a faulty EXNN: an NN that is neither 9E nor A1 does nothing
OpEUnknownIsNoop(c, w, checks) ==
    LET key == V(c, XOf(w))
    IN  IF NNOf(w) = 158
        THEN IF checks /\ ShiftOverflows(key)
             THEN Fatal(c, P_SHIFT, NoInstruction)
             ELSE Skip(c, KeyHeld(c, key))
        ELSE IF NNOf(w) = 161
             THEN IF checks /\ ShiftOverflows(key)
                  THEN Fatal(c, P_SHIFT, NoInstruction)
                  ELSE Skip(c, ~KeyHeld(c, key))
             ELSE Done(c)

OpE(c, w, checks) ==
    LET key == V(c, XOf(w))
    IN  IF NNOf(w) = 158
        THEN IF checks /\ ShiftOverflows(key)
             THEN Fatal(c, P_SHIFT, NoInstruction)
             ELSE Skip(c, KeyHeld(c, key))
        ELSE IF NNOf(w) = 161
             THEN IF checks /\ ShiftOverflows(key)
                  THEN Fatal(c, P_SHIFT, NoInstruction)
                  ELSE Skip(c, ~KeyHeld(c, key))
             ELSE Fatal(c, P_INVALID_E, w)

\* a faulty FXNN: FX55 stores V0 at memory[index]
OpFStoresV0(c, w) ==
    IF NNOf(w) = 85 /\ c.index_register < MEMORY_SIZE
    THEN Done([c EXCEPT !.memory =
                  CopyFromSlice(c.memory, c.index_register, <<V(c, 0)>>)])
    ELSE Done(c)

\* FXNN: the arm is empty
OpF(c, w) == Done(c)

\* `match op`
Execute(c, w, random_byte, checks) ==
    LET op == OpOf(w)
    IN  IF op = 0 THEN Op0(c, w)
        ELSE IF op = 1 THEN Jump(c, w)
        ELSE IF op = 2 THEN Call(c, w)
        ELSE IF op = 3 THEN SkipEqImm(c, w)
        ELSE IF op = 4 THEN SkipNeImm(c, w)
        ELSE IF op = 5 THEN SkipEqReg(c, w)
        ELSE IF op = 6 THEN LoadImm(c, w)
        ELSE IF op = 7 THEN AddImm(c, w)
        ELSE IF op = 8 THEN Op8(c, w)
        ELSE IF op = 9 THEN SkipNeReg(c, w)
        ELSE IF op = 10 THEN LoadIndex(c, w)
        ELSE IF op = 11 THEN JumpOffset(c, w)
        ELSE IF op = 12 THEN Random(c, w, random_byte)
        ELSE IF op = 13 THEN Draw(c, w)
        ELSE IF op = 14 THEN OpE(c, w, checks)
        ELSE OpF(c, w)

(***************************************************************************)
(* Cpu::run: one iteration of the loop.                                    *)
(***************************************************************************)
Cpu ==
    [memory |-> memory, screen_pixels |-> screen_pixels,
     keypad_state |-> keypad_state, program_counter |-> program_counter,
     index_register |-> index_register, stack |-> stack,
     variable_registers |-> variable_registers]

\* what the history variable keeps of the Cpu
Snapshot(c, word) ==
    [program_counter |-> c.program_counter, index_register |-> c.index_register,
     stack |-> c.stack, variable_registers |-> c.variable_registers,
     screen_pixels |-> c.screen_pixels, keypad_state |-> c.keypad_state,
     instruction |-> word]

\* a send that is taken to succeed whether or not anyone is left to receive
SendNeverFails(alive) == FALSE

\* send_screen_update: `.send(self.screen_pixels).expect("Update screen failed!")`
SendFails(alive) == ~alive

\* `if skip { self.program_counter += 2 }`
AfterSkip(c, skip) ==
    IF skip THEN [c EXCEPT !.program_counter = c.program_counter + 2] ELSE c

\* The outcome of one iteration from fields c: the fields after it, the
\* events left in the channel, the word fetched (if any), the snapshots
\* sent and the panic (NoPanic when the iteration reaches its end).
RunCycle(c, events, alive, random_byte, checks) ==
    LET d == DrainEvents(c.keypad_state, events, checks)
        c1 == [c EXCEPT !.keypad_state = d.keypad_state]
    IN  IF d.panicked
        THEN [cpu |-> c1, events |-> d.queue, instruction |-> NoInstruction,
              sent |-> <<>>, panic |-> Panic(P_SHIFT, NoInstruction)]
        ELSE IF ~FetchInBounds(c1.program_counter)
        THEN [cpu |-> c1, events |-> d.queue, instruction |-> NoInstruction,
              sent |-> <<>>, panic |-> Panic(P_BOUNDS, NoInstruction)]
        ELSE
          LET w == Fetch(c1.memory, c1.program_counter)
              c2 == [c1 EXCEPT !.program_counter = c1.program_counter + 2]
              e == Execute(c2, w, random_byte, checks)
          IN  IF e.panic # NoPanic
              THEN [cpu |-> e.cpu, events |-> d.queue, instruction |-> w,
                    sent |-> <<>>, panic |-> e.panic]
              ELSE IF e.send /\ SendFails(alive)
              THEN [cpu |-> e.cpu, events |-> d.queue, instruction |-> w,
                    sent |-> <<>>, panic |-> Panic(P_SEND, NoInstruction)]
              ELSE [cpu |-> AfterSkip(e.cpu, e.skip), events |-> d.queue,
                    instruction |-> w,
                    sent |-> IF e.send THEN <<e.cpu.screen_pixels>> ELSE <<>>,
                    panic |-> NoPanic]

\* the word the next iteration fetches (NoInstruction when the fetch faults)
NextWord ==
    IF FetchInBounds(program_counter) THEN Fetch(memory, program_counter)
    ELSE NoInstruction

\* the bytes `self.rng.gen::<u8>()` is explored with
RandomBytes == {0, 165, 255}

\* `1 << key` overflows in the next iteration only if an event is pending
\* or the word is an EXNN: there both builds are explored
BuildChoices ==
    IF cpu_io_events # <<>> \/ (NextWord # NoInstruction /\ OpOf(NextWord) = 14)
    THEN BOOLEAN ELSE {FALSE}

\* the model explores a 2NNN only while the stack holds fewer than MaxStack
WithinBounds == ~(NextWord # NoInstruction /\ OpOf(NextWord) = 2 /\ Len(stack) >= MaxStack)

Cycle ==
    /\ state = "running"
    /\ WithinBounds
    /\ \E random_byte \in (IF NextWord # NoInstruction /\ OpOf(NextWord) = 12
                           THEN RandomBytes ELSE {0}),
          overflow_checks \in BuildChoices :
         LET r == RunCycle(Cpu, cpu_io_events, receiver_alive, random_byte,
                           overflow_checks)
         IN  /\ memory' = r.cpu.memory
             /\ screen_pixels' = r.cpu.screen_pixels
             /\ keypad_state' = r.cpu.keypad_state
             /\ program_counter' = r.cpu.program_counter
             /\ index_register' = r.cpu.index_register
             /\ stack' = r.cpu.stack
             /\ variable_registers' = r.cpu.variable_registers
             /\ instruction' = r.instruction
             /\ cpu_io_events' = r.events
             /\ screen_updates' = screen_updates \o r.sent
             /\ panic' = r.panic
             /\ state' = IF r.panic # NoPanic THEN "panicked" ELSE "running"
             /\ prev' = Snapshot(Cpu, instruction)
    /\ UNCHANGED <<program, init_error, receiver_alive, phase, elapsed,
                   timerVars, screen_texture>>

(***************************************************************************)
(* Cpu::run beside the thread that holds the Sender<CpuIoEvents>.  The two *)
(* meet only at try_recv, so an iteration is two kinds of step here: one   *)
(* TryRecv per turn of the `while let` loop, then one Iteration for the    *)
(* rest of it.  In these steps `prev` holds the fields at the fetch.        *)
(***************************************************************************)
\* the keys the events are explored with, and the events
Keys == {15, 16}
CpuIoEvents == [kind : {"KeyPressed", "KeyReleased"}, key : Keys]

\* the model explores a send only while fewer than MaxQueue events wait
MaxQueue == 2

\* the other end of the channel: `send(CpuIoEvents::...)` never blocks
KeyEvent ==
    /\ state = "running"
    /\ Len(cpu_io_events) < MaxQueue
    /\ \E event \in CpuIoEvents : cpu_io_events' = Append(cpu_io_events, event)
    /\ UNCHANGED <<state, program, init_error, memory, screen_pixels,
                   keypad_state, program_counter, index_register, stack,
                   variable_registers, instruction, panic, screen_updates,
                   receiver_alive, prev, phase, elapsed, timerVars,
                   screen_texture>>

\* one turn of `while let Ok(event) = self.cpu_io_receiver.try_recv()`:
\* Err(Empty) ends the loop at once, Ok(event) is processed
TryRecv ==
    /\ state = "running"
    /\ phase = "drain"
    /\ IF cpu_io_events = <<>>
       THEN /\ phase' = "execute"
            /\ UNCHANGED <<state, keypad_state, panic, cpu_io_events>>
       ELSE \E overflow_checks \in (IF ShiftOverflows(Head(cpu_io_events).key)
                                    THEN BOOLEAN ELSE {FALSE}) :
              LET d == DrainEvents(keypad_state, <<Head(cpu_io_events)>>,
                                   overflow_checks)
              IN  /\ cpu_io_events' = Tail(cpu_io_events)
                  /\ keypad_state' = d.keypad_state
                  /\ panic' = IF d.panicked THEN Panic(P_SHIFT, NoInstruction)
                              ELSE panic
                  /\ state' = IF d.panicked THEN "panicked" ELSE "running"
                  /\ UNCHANGED phase
    /\ UNCHANGED <<program, init_error, memory, screen_pixels, program_counter,
                   index_register, stack, variable_registers, instruction,
                   screen_updates, receiver_alive, prev, elapsed, timerVars,
                   screen_texture>>

\* the iteration from the fetch to its end, the loop having seen Err(Empty)
IterationTo(next_phase) ==
    /\ state = "running"
    /\ phase = "execute"
    /\ WithinBounds
    /\ \E random_byte \in (IF NextWord # NoInstruction /\ OpOf(NextWord) = 12
                           THEN RandomBytes ELSE {0}),
          overflow_checks \in (IF NextWord # NoInstruction /\ OpOf(NextWord) = 14
                               THEN BOOLEAN ELSE {FALSE}) :
         LET r == RunCycle(Cpu, <<>>, receiver_alive, random_byte,
                           overflow_checks)
         IN  /\ memory' = r.cpu.memory
             /\ screen_pixels' = r.cpu.screen_pixels
             /\ keypad_state' = r.cpu.keypad_state
             /\ program_counter' = r.cpu.program_counter
             /\ index_register' = r.cpu.index_register
             /\ stack' = r.cpu.stack
             /\ variable_registers' = r.cpu.variable_registers
             /\ instruction' = r.instruction
             /\ screen_updates' = screen_updates \o r.sent
             /\ panic' = r.panic
             /\ state' = IF r.panic # NoPanic THEN "panicked" ELSE "running"
             /\ prev' = Snapshot(Cpu, instruction)
    /\ phase' = next_phase
    /\ UNCHANGED <<program, init_error, cpu_io_events, receiver_alive,
                   elapsed, timerVars, screen_texture>>

\* ... which leads back to the drain; the pacing of lines 314-317 is left
\* out of this step
Iteration == IterationTo("drain")

(***************************************************************************)
(* The pacing of Cpu::run.  Time is the environment's: what                *)
(* `start_time.elapsed()` returns is drawn from Elapsed.                    *)
(***************************************************************************)
INSTRUCTIONS_PER_SECOND == 700

\* Duration::from_secs_f32(1f32 / INSTRUCTIONS_PER_SECOND as f32), in whole
\* nanoseconds (a Duration holds no fraction of one)
duration_per_instruction == 1000000000 \div INSTRUCTIONS_PER_SECOND

\* the iteration from the fetch up to the reading of the clock
PacedIteration == IterationTo("pace")

\* the readings of the clock the pacing is explored with: one nanosecond
\* short of the budget, the budget itself, twice the budget
Elapsed == {duration_per_instruction - 1, duration_per_instruction,
            2 * duration_per_instruction}

\* an engine that, having overrun, runs its next instruction at once
PaceCatchesUp ==
    /\ state = "running"
    /\ phase = "pace"
    /\ \E e \in Elapsed :
         /\ elapsed' = e
         /\ phase' = IF e < duration_per_instruction THEN "sleep" ELSE "execute"
    /\ UNCHANGED <<state, program, init_error, memory, screen_pixels,
                   keypad_state, program_counter, index_register, stack,
                   variable_registers, instruction, panic, cpu_io_events,
                   screen_updates, receiver_alive, prev, timerVars,
                   screen_texture>>

\* `let elapsed = start_time.elapsed(); if elapsed < duration_per_instruction`:
\* the thread goes to sleep, or the loop starts over at once
Pace ==
    /\ state = "running"
    /\ phase = "pace"
    /\ \E e \in Elapsed :
         /\ elapsed' = e
         /\ phase' = IF e < duration_per_instruction THEN "sleep" ELSE "drain"
    /\ UNCHANGED <<state, program, init_error, memory, screen_pixels,
                   keypad_state, program_counter, index_register, stack,
                   variable_registers, instruction, panic, cpu_io_events,
                   screen_updates, receiver_alive, prev, timerVars,
                   screen_texture>>

\* std::thread::sleep(duration_per_instruction - elapsed) returns and the
\* loop starts over
Wake ==
    /\ state = "running"
    /\ phase = "sleep"
    /\ phase' = "drain"
    /\ UNCHANGED <<state, program, init_error, memory, screen_pixels,
                   keypad_state, program_counter, index_register, stack,
                   variable_registers, instruction, panic, cpu_io_events,
                   screen_updates, receiver_alive, prev, elapsed, timerVars,
                   screen_texture>>

(***************************************************************************)
(* The end of the renderer.                                                *)
(***************************************************************************)
\* the Graphics that owns `screen_update_receiver` is dropped, and with it
\* the Receiver and the snapshots it had not yet taken
DropReceiver ==
    /\ receiver_alive
    /\ receiver_alive' = FALSE
    /\ screen_updates' = <<>>
    /\ UNCHANGED <<state, program, init_error, memory, screen_pixels,
                   keypad_state, program_counter, index_register, stack,
                   variable_registers, instruction, panic, cpu_io_events,
                   prev, phase, elapsed, timerVars, screen_texture>>

(***************************************************************************)
(* Timer (src/src/timers.rs).                                              *)
(***************************************************************************)
\* Timer::new(sound): the counter is 0 and its Mutex free; run not yet called
TimerNew(sound) ==
    /\ timer_sound = sound
    /\ timer_value = 0
    /\ timer_lock = FALSE
    /\ timer_pc = "new"
    /\ current_value = 0
    /\ sink_paused = FALSE
    /\ holder_pc = "idle"
    /\ timer_written = 0
    /\ timer_ticks = 0

\* a faulty decrement: wraps below zero
DecrementedWrapping(value) == (value + 255) % 256

\* `if *value != 0 { *value -= 1; }`
Decremented(value) == IF value # 0 THEN value - 1 ELSE value

\* a faulty lock: does not wait for the holder of the Mutex
CanLockAlways(locked) == TRUE

\* `self.value.lock()` returns only while no other guard of the Mutex lives
CanLock(locked) == ~locked

\* a faulty toggle: the tone is never resumed
ToggledNeverPlays(paused, value) == paused \/ value = 0

\* a faulty toggle: the tone is resumed at every tick
ToggledAlwaysPlays(paused, value) == FALSE

\* `if current_value == 0 && !is_paused() { pause() }` and then
\* `if current_value != 0 && is_paused() { play() }`: is_paused() after both
Toggled(paused, value) ==
    LET paused1 == IF value = 0 /\ ~paused THEN TRUE ELSE paused
    IN  IF value # 0 /\ paused1 THEN FALSE ELSE paused1

\* Timer::run up to its loop: a sound timer opens a sink with a sine wave
\* appended, which plays
TimerRun ==
    /\ timer_pc = "new"
    /\ timer_pc' = "lock"
    /\ sink_paused' = FALSE
    /\ UNCHANGED <<timer_sound, timer_value, timer_lock, current_value,
                   holder_pc, timer_written, timer_ticks, cpuVars,
                   screen_texture>>

\* `let mut value = self.value.lock().unwrap();`
TimerLock ==
    /\ timer_pc = "lock"
    /\ CanLock(timer_lock)
    /\ timer_lock' = TRUE
    /\ timer_pc' = "locked"
    /\ UNCHANGED <<timer_sound, timer_value, current_value, sink_paused,
                   holder_pc, timer_written, timer_ticks, cpuVars,
                   screen_texture>>

\* the history counter of decrement blocks stops at MaxTicks
MaxTicks == 256

\* the rest of the block: the decrement, the read, and the guard dropped
TimerDecrement ==
    /\ timer_pc = "locked"
    /\ timer_value' = Decremented(timer_value)
    /\ current_value' = timer_value'
    /\ timer_lock' = FALSE
    /\ timer_pc' = "sound"
    /\ timer_ticks' = IF timer_ticks < MaxTicks THEN timer_ticks + 1
                      ELSE timer_ticks
    /\ UNCHANGED <<timer_sound, sink_paused, holder_pc, timer_written,
                   cpuVars, screen_texture>>

\* `if let Some((_, sound_sink)) = &sound { ... }`
TimerSound ==
    /\ timer_pc = "sound"
    /\ sink_paused' = IF timer_sound THEN Toggled(sink_paused, current_value)
                      ELSE sink_paused
    /\ timer_pc' = "sleep"
    /\ UNCHANGED <<timer_sound, timer_value, timer_lock, current_value,
                   holder_pc, timer_written, timer_ticks, cpuVars,
                   screen_texture>>

\* `std::thread::sleep(delay_count);` and back to the top of the loop
TimerSleep ==
    /\ timer_pc = "sleep"
    /\ timer_pc' = "lock"
    /\ UNCHANGED <<timer_sound, timer_value, timer_lock, current_value,
                   sink_paused, holder_pc, timer_written, timer_ticks,
                   cpuVars, screen_texture>>

\* A thread that holds a clone of the Arc from get_value_arc: the u8 can
\* be reached through a guard of the Mutex only.  It locks ...
HolderLock ==
    /\ holder_pc = "idle"
    /\ CanLock(timer_lock)
    /\ timer_lock' = TRUE
    /\ holder_pc' = "locked"
    /\ UNCHANGED <<timer_sound, timer_value, timer_pc, current_value,
                   sink_paused, timer_written, timer_ticks, cpuVars,
                   screen_texture>>

\* ... and stores a byte and drops the guard
TimerVals == {0, 1, 3, 255}
HolderStore ==
    /\ holder_pc = "locked"
    /\ \E v \in TimerVals :
         /\ timer_value' = v
         /\ timer_written' = v
    /\ timer_ticks' = 0
    /\ timer_lock' = FALSE
    /\ holder_pc' = "idle"
    /\ UNCHANGED <<timer_sound, timer_pc, current_value, sink_paused,
                   cpuVars, screen_texture>>

(***************************************************************************)
(* Graphics (src/src/graphics.rs): the screen texture.                     *)
(***************************************************************************)
SCREEN_PX_WIDTH == 64
SCREEN_PX_HEIGHT == 32
SCREEN_PX_STRIDE == 4
TextureBytes == SCREEN_PX_STRIDE * SCREEN_PX_WIDTH * SCREEN_PX_HEIGHT

\* The texture is the function from the offsets of its bytes that are not
\* 255 to their values: TexRead gives the byte at any offset.
TexRead(texture, i) == IF i \in DOMAIN texture THEN texture[i] ELSE 255

\* Graphics::new writes a test pattern: white, but for the first four
\* pixels, the last pixel of the first row and the last pixel of all
initial_pixels ==
    [i \in {0, 1, 2, 5, 6, 8, 10, 12, 13,
            SCREEN_PX_STRIDE * SCREEN_PX_WIDTH - 2,
            TextureBytes - SCREEN_PX_STRIDE} |-> 0]

\* a faulty drain: keeps the first update received
FirstUpdate(updates) == Head(updates)

\* `while let Ok(update) = try_recv() { final_update = Some(update); }`
FinalUpdate(updates) == updates[Len(updates)]

\* final_pixels: row after row, each from bit 63 down, four bytes a pixel:
\* 255 255 255 255 for a set bit and 0 0 0 255 for a clear one
FinalPixels(update) ==
    LET pixel(i) == i \div SCREEN_PX_STRIDE
        dark == {i \in 0..(TextureBytes - 1) :
                    /\ i % SCREEN_PX_STRIDE # 3
                    /\ (63 - (pixel(i) % SCREEN_PX_WIDTH))
                           \notin update[pixel(i) \div SCREEN_PX_WIDTH]}
    IN  [i \in dark |-> 0]

\* Graphics::handle_screen_updates, at the try_recv that finds the channel
\* empty: the updates received before it are those sent up to then
HandleScreenUpdates ==
    /\ receiver_alive
    /\ IF screen_updates = <<>>
       THEN UNCHANGED screen_texture
       ELSE screen_texture' = FinalPixels(FinalUpdate(screen_updates))
    /\ screen_updates' = <<>>
    /\ UNCHANGED <<state, program, init_error, memory, screen_pixels,
                   keypad_state, program_counter, index_register, stack,
                   variable_registers, instruction, panic, cpu_io_events,
                   receiver_alive, prev, phase, elapsed, timerVars>>

(***************************************************************************)
(* The programs the model is run on.                                       *)
(***************************************************************************)
\* instruction words, by their fields
W(op, x, y, n) == op * 4096 + x * 256 + y * 16 + n
WI(op, x, nn) == op * 4096 + x * 256 + nn
WA(op, nnn) == op * 4096 + nnn

\* the bytes of a sequence of words, big-endian
Asm(ws) ==
    [i \in 1..(2 * Len(ws)) |->
        IF i % 2 = 1 THEN ws[(i + 1) \div 2] \div 256 ELSE ws[i \div 2] % 256]

\* register values and register pairs the programs load
RegVals == {0, 1, 128, 255}
AddVals == {0, 1, 2, 127, 128, 255}
FlagVals == {0, 255}
RegPairs == {<<0, 1>>, <<1, 0>>, <<3, 3>>, <<15, 1>>, <<1, 15>>}

\* a program of a given length: 00 01 (a machine-code call) and then bytes
\* that differ from their neighbours
Filled(len) ==
    [i \in 1..len |-> IF i = 1 THEN 0 ELSE IF i = 2 THEN 1 ELSE (i % 255) + 1]

SizePrograms ==
    {Filled(len) : len \in (0..3) \cup
        ((MAX_ALLOWED_PROGRAM_SIZE - MaxOver)..(MAX_ALLOWED_PROGRAM_SIZE + MaxOver))}

\* VF, Vx, Vy loaded, then 8XYn
AluOps == {0, 1, 2, 3, 4, 5, 6, 7, 14, 8, 15}
AluPrograms ==
    {Asm(<<WI(6, 15, f), WI(6, xy[1], a), WI(6, xy[2], b), W(8, xy[1], xy[2], n)>>) :
        f \in FlagVals, xy \in RegPairs, a \in RegVals, b \in RegVals, n \in AluOps}

\* VF, Vx loaded, then 7XNN
AddImmPrograms ==
    {Asm(<<WI(6, 15, f), WI(6, x, a), WI(7, x, nn)>>) :
        f \in FlagVals, x \in {0, 3, 15}, a \in AddVals, nn \in AddVals}

\* V0, V1 loaded, then a word outside the instruction set
UnknownWords ==
    {WI(15, 0, nn) : nn \in {0, 7, 10, 21, 24, 30, 41, 51, 85, 101, 255}}
    \cup {W(5, 0, 1, n) : n \in {1, 15}} \cup {W(9, 0, 1, n) : n \in {1, 15}}
    \cup {W(8, 0, 1, 8), WI(14, 0, 0), WA(0, 0), WA(0, 291)}
    \cup {WA(0, 225), WA(0, 480), WA(0, 4078)}
    \cup {W(8, 0, 1, n) : n \in {9, 10, 11, 12, 13, 15}}
    \cup {WI(14, 0, nn) : nn \in {157, 159, 160, 162, 255}}
UnknownPrograms ==
    {Asm(<<WI(6, 0, a), WI(6, 1, b), w, WI(6, 2, 1), WI(6, 3, 1)>>) :
        a \in {0, 1}, b \in {0, 1}, w \in UnknownWords}

\* a subroutine that calls itself; a return with nothing to return to
StackPrograms == {Asm(<<WA(2, 512)>>), Asm(<<WA(0, 238)>>)}

\* k loads, a call to the word at index t, loads, and a return at t
CallProgram(k, t) ==
    Asm([i \in 1..(t + 1) |->
            IF i = k + 1 THEN WA(2, PROGRAM_INIT_LOAD_POS + 2 * t)
            ELSE IF i = t + 1 THEN WA(0, 238)
            ELSE WI(6, 0, i)])

\* a call from inside a subroutine; a call to an odd address; a call to
\* the last word of memory (and, in CallPrograms, a call of a subroutine
\* that begins with a machine-code call)
NestedCalls == Asm(<<WA(2, 516), WA(0, 0), WA(2, 520), WA(0, 238), WA(0, 238)>>)
OddCall == <<34, 5, 0, 0, 96, 0, 238>>
FarCall ==
    [i \in 1..MAX_ALLOWED_PROGRAM_SIZE |->
        IF i = 1 THEN 47 ELSE IF i = 2 THEN 254
        ELSE IF i = MAX_ALLOWED_PROGRAM_SIZE THEN 238 ELSE 0]

CallPrograms ==
    {CallProgram(k, t) : k \in 0..2, t \in 3..5} \cup {NestedCalls, OddCall, FarCall}
    \cup {Asm(<<WA(2, 516), WA(0, 0), WA(0, 291)>>)}

\* a glyph drawn at (0, 0), then index, Vx, Vy loaded and DXYN twice
DrawXs == {0, 3, 56, 57, 63, 67}
DrawYs == {0, 29, 31, 34}
DrawHeights == {0, 1, 5, 15}
DrawIndexes == {80, 512, 4090}
DrawPairs == {<<1, 2>>, <<15, 2>>, <<1, 15>>}
DrawPrograms ==
    {Asm(<<WA(10, 80), W(13, 0, 0, 5), WI(6, xy[1], a), WI(6, xy[2], b),
           WA(10, i), W(13, xy[1], xy[2], n), W(13, xy[1], xy[2], n)>>) :
        xy \in DrawPairs, a \in DrawXs, b \in DrawYs, n \in DrawHeights,
        i \in DrawIndexes}

\* the other instructions, one program each
OtherPrograms ==
    {Asm(<<WA(0, 224), WI(6, 0, 4), WA(11, 514), WA(1, 520), WI(12, 1, 15),
           WI(3, 1, 15), WI(4, 1, 0), W(5, 0, 0, 0), W(9, 0, 1, 0)>>),
     Asm(<<WI(6, 0, 255), WA(11, 4095)>>),
     Asm(<<WA(1, 4095)>>)}

\* Vx loaded with a key, then EX9E or EXA1 and a load to skip
KeyPrograms ==
    {Asm(<<WI(6, 1, k), WI(14, 1, nn), WI(6, 2, 1)>>) :
        k \in {5, 15, 16}, nn \in {158, 161}}

\* a glyph drawn, moved and drawn again, a clear and a last draw
RenderPrograms ==
    {Asm(<<WA(10, 80), W(13, 0, 0, 5), WI(6, 0, a), W(13, 0, 1, 5), WA(0, 224),
           WA(10, 85), W(13, 0, 1, n)>>) : a \in {3, 30, 61}, n \in {0, 5}}

\* V0, V1 loaded, then 3XNN, 4XNN, 5XY0 or 9XY0 and a load to skip
SkipPrograms ==
    {Asm(<<WI(6, 0, a), WI(6, 1, b), w, WI(6, 2, 1)>>) :
        a \in {0, 1, 255}, b \in {0, 1, 255},
        w \in {WI(3, 0, 1), WI(4, 0, 1), WI(3, 1, 255), WI(4, 1, 0),
               W(5, 0, 1, 0), W(9, 0, 1, 0), W(5, 1, 1, 0), W(9, 1, 1, 0)}}

Programs ==
    SizePrograms \cup AluPrograms \cup AddImmPrograms \cup UnknownPrograms
    \cup StackPrograms \cup CallPrograms \cup DrawPrograms \cup OtherPrograms
    \cup KeyPrograms \cup SkipPrograms \cup RenderPrograms

(***************************************************************************)
(* The engine alone: no key event arrives and the renderer keeps its end   *)
(* of the snapshot channel.                                                *)
(***************************************************************************)
Init ==
    /\ state = "new"
    /\ program \in Programs
    /\ init_error = NoError
    /\ memory = ZeroMemory
    /\ screen_pixels = <<>>
    /\ keypad_state = 0
    /\ program_counter = 0
    /\ index_register = 0
    /\ stack = <<>>
    /\ variable_registers = <<>>
    /\ instruction = NoInstruction
    /\ panic = NoPanic
    /\ cpu_io_events = <<>>
    /\ screen_updates = <<>>
    /\ receiver_alive = TRUE
    /\ prev = NoPrev
    /\ phase = "drain"
    /\ elapsed = 0
    /\ TimerNew(FALSE)
    /\ screen_texture = initial_pixels

Next == New \/ Cycle

Spec == Init /\ [][Next]_vars

(***************************************************************************)
(* The engine and the sender of key events, on the keypad programs.        *)
(***************************************************************************)
InitKeys ==
    /\ state = "new"
    /\ program \in KeyPrograms
    /\ init_error = NoError
    /\ memory = ZeroMemory
    /\ screen_pixels = <<>>
    /\ keypad_state = 0
    /\ program_counter = 0
    /\ index_register = 0
    /\ stack = <<>>
    /\ variable_registers = <<>>
    /\ instruction = NoInstruction
    /\ panic = NoPanic
    /\ cpu_io_events = <<>>
    /\ screen_updates = <<>>
    /\ receiver_alive = TRUE
    /\ prev = NoPrev
    /\ phase = "drain"
    /\ elapsed = 0
    /\ TimerNew(FALSE)
    /\ screen_texture = initial_pixels

NextKeys == New \/ KeyEvent \/ TryRecv \/ Iteration

SpecKeys == InitKeys /\ [][NextKeys]_vars

(***************************************************************************)
(* Properties.  In a state reached by a cycle, `instruction` is the word   *)
(* that cycle fetched and `prev` holds the Cpu's fields from before it.    *)
(***************************************************************************)
\* the last cycle fetched a word with this opcode nibble
Fetched(op) == instruction # NoInstruction /\ OpOf(instruction) = op

\* the last cycle fetched a word and reached the end of the iteration
Completed(op) == Fetched(op) /\ state = "running"

\* the last cycle fetched 8XYn with this n
FetchedAlu(n) == Fetched(8) /\ NOf(instruction) = n

X == XOf(instruction)
Y == YOf(instruction)
PrevVx == prev.variable_registers[X]
PrevVy == prev.variable_registers[Y]
Vx == variable_registers[X]
VF == variable_registers[15]

\* the fields of the Cpu are those of no constructed machine
Unconstructed ==
    /\ memory = ZeroMemory
    /\ screen_pixels = <<>>
    /\ variable_registers = <<>>
    /\ stack = <<>>
    /\ program_counter = 0

\* C1: Cpu::new succeeds iff the program is at most 3584 bytes long; on
\* success memory[0x200 .. 0x200+len) is the program, on failure the error
\* is ProgramTooBig {actual: len, allowed: 3584} and no machine exists.
C1_NewContract ==
    /\ state = "new" => init_error = NoError /\ Unconstructed
    /\ state # "new" => (state = "init_error" <=> Len(program) > 3584)
    /\ state = "init_error" =>
          /\ init_error = [kind |-> "ProgramTooBig", actual |-> Len(program),
                           allowed |-> 3584]
          /\ Unconstructed
    /\ state \in {"running", "panicked"} =>
          /\ init_error = NoError
          /\ \A i \in 1..Len(program) : MemRead(memory, 512 + i - 1) = program[i]

C1_Witness ==
    /\ state = "running"
    /\ instruction = NoInstruction
    /\ Len(program) = 3584
    /\ MemRead(memory, 4095) = program[3584]
    /\ program[3584] # 0

C1_WitnessTooBig ==
    /\ state = "init_error"
    /\ init_error.actual = 3585

\* the instruction set of the engine's opcode table; the engine implements
\* no word of the FX family
Recognized(w) ==
    LET op == w \div 4096
        n == w % 16
        nn == w % 256
    IN  CASE op = 0 -> w \in {224, 238}
          [] op \in {5, 9} -> n = 0
          [] op = 8 -> n \in {0, 1, 2, 3, 4, 5, 6, 7, 14}
          [] op = 14 -> nn \in {158, 161}
          [] op = 15 -> FALSE
          [] OTHER -> TRUE

\* C2: a fetched word that is not a recognized opcode, among them every FX
\* word and 5XYn / 9XYn with n # 0, ends the loop with a fatal error.
C2_UnknownIsFatal ==
    (instruction # NoInstruction /\ ~Recognized(instruction)) => state = "panicked"

\* C3: the call stack never holds more than 16 return addresses: a 2NNN
\* executed with 16 entries on the stack is fatal and pushes nothing.
C3_StackBounded ==
    /\ Len(stack) <= 16
    /\ (Fetched(2) /\ Len(prev.stack) = 16) =>
          state = "panicked" /\ stack = prev.stack

\* C4: 00EE on an empty call stack ends the loop with a fatal error: pc is
\* not set from a stack entry and no further cycle runs.
C4_ReturnOnEmptyIsFatal ==
    (instruction = 238 /\ prev.stack = <<>>) =>
        /\ state = "panicked"
        /\ panic.kind = P_EMPTY_STACK
        /\ program_counter = prev.program_counter + 2
        /\ stack = <<>>
        /\ ~ENABLED Cycle

C4_Witness ==
    /\ instruction = 238
    /\ prev.stack = <<>>
    /\ prev.instruction # NoInstruction
    /\ state = "panicked"

\* C5: for x # 0xF, 8XY5 leaves Vx = (Vx - Vy) mod 256 and VF = 1 iff
\* Vx >= Vy; 8XY7 leaves Vx = (Vy - Vx) mod 256 and VF = 1 iff Vy >= Vx.
C5_SubtractNoBorrow ==
    /\ (FetchedAlu(5) /\ X # 15) =>
          /\ Vx = (PrevVx - PrevVy) % 256
          /\ VF = IF PrevVx >= PrevVy THEN 1 ELSE 0
    /\ (FetchedAlu(7) /\ X # 15) =>
          /\ Vx = (PrevVy - PrevVx) % 256
          /\ VF = IF PrevVy >= PrevVx THEN 1 ELSE 0

\* C6: for x # 0xF, 8XY4 leaves Vx = (Vx + Vy) mod 256 and VF = 1 iff the
\* sum of the old Vx and the old Vy exceeds 255, else VF = 0.
C6_AddCarry ==
    (FetchedAlu(4) /\ X # 15) =>
        /\ Vx = (PrevVx + PrevVy) % 256
        /\ VF = IF PrevVx + PrevVy > 255 THEN 1 ELSE 0
        /\ \A r \in 0..14 : r # X => variable_registers[r] = prev.variable_registers[r]

C6_Witness ==
    /\ FetchedAlu(4)
    /\ X # 15
    /\ PrevVx + PrevVy > 255
    /\ prev.variable_registers[15] = 0
    /\ VF = 1

\* pixel (row, col) of a display, col 0 being the leftmost; bit j of a
\* sprite row, j = 0 being its leftmost pixel
PixelSet(screen, row, col) == (63 - col) \in screen[row]
SpriteBit(mem, addr, j) == Bit(MemRead(mem, addr), 7 - j) = 1

\* the draw of the last cycle hit a pixel that was set before it
Collision ==
    LET x_start == PrevVx % 64
        y_start == PrevVy % 32
    IN  \E i \in 0..(NOf(instruction) - 1), j \in 0..7 :
            /\ y_start + i <= 31
            /\ x_start + j <= 63
            /\ SpriteBit(memory, prev.index_register + i, j)
            /\ PixelSet(prev.screen_pixels, y_start + i, x_start + j)

\* C7: after 8XY4, 8XY5, 8XY6, 8XY7, 8XYE and DXYN, for every x (0xF
\* included), VF is 0 or 1 and is the carry, no-borrow, shifted-out or
\* collision flag of the instruction, whatever VF held before.
C7_FlagIsTheFlag ==
    /\ FetchedAlu(4) => VF = IF PrevVx + PrevVy > 255 THEN 1 ELSE 0
    /\ FetchedAlu(5) => VF = IF PrevVx >= PrevVy THEN 1 ELSE 0
    /\ FetchedAlu(6) => VF = PrevVx % 2
    /\ FetchedAlu(7) => VF = IF PrevVy >= PrevVx THEN 1 ELSE 0
    /\ FetchedAlu(14) => VF = PrevVx \div 128
    /\ Completed(13) => VF = IF Collision THEN 1 ELSE 0

\* C8: 7XNN leaves Vx = (Vx + NN) mod 256 and every other register, VF
\* among them, as it was.
C8_AddImmediateWraps ==
    Fetched(7) =>
        variable_registers =
            [prev.variable_registers EXCEPT ![X] = (PrevVx + NNOf(instruction)) % 256]

C8_Witness ==
    /\ Fetched(7)
    /\ X # 15
    /\ PrevVx = 255
    /\ NNOf(instruction) = 2
    /\ Vx = 1
    /\ prev.variable_registers[15] = 0
    /\ VF = 0

\* the start coordinates and the index register of a draw of word w from
\* registers regs
DrawArgs(w, regs, index) == <<regs[XOf(w)] % 64, regs[YOf(w)] % 32, index>>

\* the last cycle drew, and the next cycle draws the same word from the
\* same start coordinates and the same index register
DrawsAgain ==
    /\ Completed(13)
    /\ NextWord = instruction
    /\ DrawArgs(instruction, variable_registers, index_register)
         = DrawArgs(instruction, prev.variable_registers, prev.index_register)

\* C9: a DXYN executed twice in a row with the same start coordinates,
\* index register and sprite bytes leaves every display row as it was
\* before the first of the two.
C9_DrawTwiceRestores ==
    [][DrawsAgain => (state' = "running" /\ screen_pixels' = prev.screen_pixels)]_vars

\* after the second of two such draws: the first changed the display, which
\* was not blank before it
C9_Witness ==
    /\ Completed(13)
    /\ prev.instruction = instruction
    /\ X # 15 /\ Y # 15
    /\ NOf(instruction) > 1
    /\ screen_pixels # ZeroScreen
    /\ screen_pixels # prev.screen_pixels
    /\ \E row \in 0..31 : prev.screen_pixels[row] \ screen_pixels[row] # {}
    /\ \E row \in 0..31 : screen_pixels[row] \ prev.screen_pixels[row] # {}

\* C10: 2NNN executed at address pc and then 00EE as the next instruction
\* leave pc = the call's address + 2 and the call stack as before the call.
C10_CallReturnRoundTrip ==
    [][(Completed(2) /\ NextWord = 238) =>
          /\ state' = "running"
          /\ program_counter' = prev.program_counter + 2
          /\ stack' = prev.stack]_vars

\* after the return of a call made inside a subroutine
C10_Witness ==
    /\ state = "running"
    /\ instruction = 238
    /\ prev.instruction # NoInstruction
    /\ OpOf(prev.instruction) = 2
    /\ stack # <<>>
    /\ program_counter = stack[Len(stack)] + 4

\* C11: EX9E with Vx = k, k in 0..15, skips the next instruction (pc is
\* advanced by 4 in all) exactly when bit k of the keypad state is set, and
\* EXA1 exactly when it is clear; so EX9E never skips while no key was ever
\* pressed.  Otherwise pc is advanced by 2.
C11_KeySkips ==
    (Completed(14) /\ NNOf(instruction) \in {158, 161} /\ PrevVx <= 15) =>
        LET held == Bit(prev.keypad_state, PrevVx) = 1
            skips == IF NNOf(instruction) = 158 THEN held ELSE ~held
        IN  /\ program_counter =
                   prev.program_counter + (IF skips THEN 4 ELSE 2)
            /\ (prev.keypad_state = 0 /\ NNOf(instruction) = 158) =>
                   program_counter = prev.program_counter + 2

\* EX9E skipped on key 15 while a key other than 15 was held as well
C11_Witness ==
    /\ Completed(14)
    /\ NNOf(instruction) = 158
    /\ PrevVx = 15
    /\ Bit(prev.keypad_state, 15) = 1
    /\ prev.keypad_state # 2 ^ 15
    /\ program_counter = prev.program_counter + 4

\* EXA1 skipped on key 15, a key other than 15 being held
C11_WitnessNotHeld ==
    /\ Completed(14)
    /\ NNOf(instruction) = 161
    /\ PrevVx = 15
    /\ prev.keypad_state # 0
    /\ program_counter = prev.program_counter + 4

(***************************************************************************)
(* A Timer and a holder of its counter; the engine is not constructed.     *)
(***************************************************************************)
InitTimer ==
    /\ state = "new"
    /\ program = <<>>
    /\ init_error = NoError
    /\ memory = ZeroMemory
    /\ screen_pixels = <<>>
    /\ keypad_state = 0
    /\ program_counter = 0
    /\ index_register = 0
    /\ stack = <<>>
    /\ variable_registers = <<>>
    /\ instruction = NoInstruction
    /\ panic = NoPanic
    /\ cpu_io_events = <<>>
    /\ screen_updates = <<>>
    /\ receiver_alive = TRUE
    /\ prev = NoPrev
    /\ phase = "drain"
    /\ elapsed = 0
    /\ \E sound \in BOOLEAN : TimerNew(sound)
    /\ screen_texture = initial_pixels

NextTimer ==
    TimerRun \/ TimerLock \/ TimerDecrement \/ TimerSound \/ TimerSleep
    \/ HolderLock \/ HolderStore

SpecTimer == InitTimer /\ [][NextTimer]_vars

(***************************************************************************)
(* The engine and the renderer at the other end of the snapshot channel.   *)
(***************************************************************************)
InitRender ==
    /\ state = "new"
    /\ program \in RenderPrograms
    /\ init_error = NoError
    /\ memory = ZeroMemory
    /\ screen_pixels = <<>>
    /\ keypad_state = 0
    /\ program_counter = 0
    /\ index_register = 0
    /\ stack = <<>>
    /\ variable_registers = <<>>
    /\ instruction = NoInstruction
    /\ panic = NoPanic
    /\ cpu_io_events = <<>>
    /\ screen_updates = <<>>
    /\ receiver_alive = TRUE
    /\ prev = NoPrev
    /\ phase = "drain"
    /\ elapsed = 0
    /\ TimerNew(FALSE)
    /\ screen_texture = initial_pixels

NextRender == New \/ Cycle \/ HandleScreenUpdates

SpecRender == InitRender /\ [][NextRender]_vars

\* a step of the sender: one event is appended, the engine is untouched
SenderStep ==
    /\ \E event \in CpuIoEvents : cpu_io_events' = Append(cpu_io_events, event)
    /\ UNCHANGED <<keypad_state, phase, state, program_counter>>

\* C12: at the start of each cycle the engine takes the pending events out
\* of the channel one by one, oldest first, until it finds the channel
\* empty, and never waits on an empty channel.  Taking an event for key k
\* (0..15) sets bit k of the keypad state if it is a KeyPressed and clears
\* it if it is a KeyReleased, and leaves the other bits alone, so after the
\* drain bit k tells the last event drained for key k.  Once the drain has
\* ended the rest of the cycle neither takes an event nor changes the
\* keypad state: an event sent by then waits for the next cycle.
C12_DrainIsFifo ==
    /\ []((state = "running" /\ phase = "drain") => ENABLED TryRecv)
    /\ [][/\ (state = "running" /\ phase = "drain" /\ cpu_io_events # <<>>) =>
               \/ SenderStep
               \/ /\ cpu_io_events' = Tail(cpu_io_events)
                  /\ phase' = "drain"
                  /\ LET event == Head(cpu_io_events)
                     IN  event.key <= 15 =>
                           /\ state' = "running"
                           /\ \A k \in 0..15 :
                                 Bit(keypad_state', k) =
                                   IF k # event.key THEN Bit(keypad_state, k)
                                   ELSE IF event.kind = "KeyPressed" THEN 1
                                   ELSE 0
          /\ (state = "running" /\ phase = "drain" /\ cpu_io_events = <<>>) =>
               \/ SenderStep
               \/ /\ phase' = "execute"
                  /\ UNCHANGED <<cpu_io_events, keypad_state, state>>
          /\ (state = "running" /\ phase = "execute") =>
               \/ SenderStep
               \/ /\ phase' = "drain"
                  /\ UNCHANGED <<cpu_io_events, keypad_state>>]_vars

\* the drain of a cycle has ended with key 15 held, and an event sent
\* since then waits in the channel
C12_Witness ==
    /\ state = "running"
    /\ phase = "execute"
    /\ instruction # NoInstruction
    /\ Bit(keypad_state, 15) = 1
    /\ cpu_io_events # <<>>
    /\ Head(cpu_io_events).key = 15

\* C13: a counter that holds n (0..255) and is written by nobody else is
\* decremented by exactly 1 by each tick of Timer::run until it is 0, which
\* it is after exactly n ticks, and further ticks leave it at 0: it never
\* wraps around to 255.  (timer_written is n, timer_ticks the ticks since.)
C13_CountsDownToZero ==
    /\ [](timer_value = IF timer_ticks < timer_written
                        THEN timer_written - timer_ticks ELSE 0)
    /\ [][(timer_pc = "locked" /\ timer_pc' = "sound") =>
            /\ timer_value' = IF timer_value = 0 THEN 0 ELSE timer_value - 1
            /\ current_value' = timer_value']_vars

\* a counter set to 255 has been ticked 255 times and then once more
C13_Witness ==
    /\ timer_written = 255
    /\ timer_ticks = 256
    /\ timer_value = 0
    /\ timer_pc = "sound"

\* C14: the counter has a lock of its own and no two threads are inside a
\* read-modify-write of it at once; Timer::run holds the lock for its
\* test-and-decrement only, having released it before it toggles the tone
\* and before it sleeps.
C14_LockHeldForDecrementOnly ==
    /\ ~(timer_pc = "locked" /\ holder_pc = "locked")
    /\ timer_lock <=> (timer_pc = "locked" \/ holder_pc = "locked")
    /\ timer_pc \in {"sound", "sleep"} => (timer_lock => holder_pc = "locked")

\* the holder is inside its store while Timer::run, a decrement behind it,
\* is at its tone toggle
C14_Witness ==
    /\ timer_pc = "sound"
    /\ holder_pc = "locked"
    /\ timer_lock
    /\ timer_ticks >= 1

\* C15: in the loop of a sound timer, after the tone toggle of a tick the
\* tone plays exactly when the counter value read in that tick is not 0: the
\* tick that reads 0 pauses a playing tone, a tick that reads a nonzero value
\* while the tone is paused resumes it.
C15_ToneFollowsCounter ==
    /\ [](timer_sound /\ timer_pc = "sleep" => (sink_paused <=> current_value = 0))
    /\ [][(timer_sound /\ timer_pc = "sound" /\ timer_pc' = "sleep") =>
            sink_paused' = (current_value = 0)]_vars

\* a tick has read a nonzero value with the tone paused ...
C15_WitnessPaused ==
    /\ timer_sound
    /\ timer_pc = "sound"
    /\ sink_paused
    /\ current_value # 0

\* ... and the tone plays after the toggle of a tick that read 2, the
\* counter having been set to 3
C15_Witness ==
    /\ timer_sound
    /\ timer_pc = "sleep"
    /\ ~sink_paused
    /\ current_value = 2
    /\ timer_written = 3

\* C16: a DXYN that is executed to its end sends exactly one snapshot, the
\* display as it is after all its rows; a 00E0 sends exactly one snapshot,
\* all zero; no other instruction, and no instruction that ends in a fatal
\* error, sends any.  The snapshots sent before stay as they were sent.
C16_OneSnapshotPerDraw ==
    [][state = "running" =>
         IF /\ state' = "running"
            /\ NextWord # NoInstruction
            /\ (OpOf(NextWord) = 13 \/ NextWord = 224)
         THEN /\ screen_updates' = Append(screen_updates, screen_pixels')
              /\ NextWord = 224 => screen_pixels' = ZeroScreen
         ELSE screen_updates' = screen_updates]_vars

\* three draws have sent three snapshots, the second unlike the third
C16_Witness ==
    /\ Completed(13)
    /\ Len(screen_updates) = 3
    /\ screen_updates[3] = screen_pixels
    /\ screen_updates[2] # screen_updates[3]
    /\ screen_updates[2] # ZeroScreen

\* a 00E0 has sent its snapshot
C16_WitnessClear ==
    /\ state = "running"
    /\ instruction = 224
    /\ screen_updates = <<ZeroScreen>>

\* the texture shows a display: pixel (row, col) is white where the bit
\* of the display is set and black where it is clear, opaque in both cases
Shows(texture, display) ==
    \A row \in 0..31, col \in 0..63 :
        LET base == 4 * (64 * row + col)
            shade == IF PixelSet(display, row, col) THEN 255 ELSE 0
        IN  /\ TexRead(texture, base) = shade
            /\ TexRead(texture, base + 1) = shade
            /\ TexRead(texture, base + 2) = shade
            /\ TexRead(texture, base + 3) = 255

\* C17: a pass of the renderer can always run (it never waits on the
\* channel); it leaves the channel empty and the texture showing the last
\* snapshot that was queued, the earlier ones being dropped, and leaves the
\* texture as it was when nothing was queued.  So once the engine has
\* stopped and a pass has emptied the channel, the texture shows the
\* display the engine emitted last (here: the display it stopped with),
\* unless no snapshot was ever sent.
C17_LastSnapshotShown ==
    /\ [](ENABLED HandleScreenUpdates)
    /\ []((state = "panicked" /\ screen_updates = <<>>) =>
            (screen_texture = initial_pixels \/ Shows(screen_texture, screen_pixels)))
    /\ [][(Len(screen_updates') < Len(screen_updates)
            \/ screen_texture' # screen_texture) =>
              /\ screen_updates # <<>>
              /\ screen_updates' = <<>>
              /\ Shows(screen_texture', screen_updates[Len(screen_updates)])]_vars

\* a pass has run after a draw that changed the display: the channel is
\* empty and the texture shows the display, which is not blank
C17_Witness ==
    /\ Len(screen_updates) = 0
    /\ Completed(13)
    /\ screen_pixels # ZeroScreen
    /\ screen_pixels # prev.screen_pixels
    /\ Shows(screen_texture, screen_pixels)

\* C18: a 0NNN whose NNN is neither 0E0 nor 0EE ends the run with the
\* fatal error of a machine-code call; the registers, the index register,
\* the call stack, memory and the display are as before it, and no snapshot
\* is sent.
C18_MachineCallIsFatal ==
    [][(/\ state = "running"
        /\ NextWord # NoInstruction
        /\ OpOf(NextWord) = 0
        /\ NNNOf(NextWord) \notin {224, 238}) =>
          /\ state' = "panicked"
          /\ panic' = Panic(P_MACHINE_CALL, NextWord)
          /\ UNCHANGED <<variable_registers, index_register, stack, memory,
                         screen_pixels, screen_updates>>]_vars

\* 01E0, whose low byte is that of 00E0, has been fatal inside a program
\* that had loaded a register
C18_Witness ==
    /\ state = "panicked"
    /\ panic = Panic(P_MACHINE_CALL, 480)
    /\ instruction = 480
    /\ variable_registers[0] = 1
    /\ screen_updates = <<>>

\* 0123 has been fatal inside a subroutine
C18_WitnessInCall ==
    /\ state = "panicked"
    /\ panic = Panic(P_MACHINE_CALL, 291)
    /\ stack # <<>>

\* C19: after every successful initialisation, and from then on, memory
\* 0x50..0x9F is the glyph table, the five bytes of digit d at 0x50 + 5 * d,
\* and every byte outside the glyph table and outside the program's bytes
\* at 0x200.. is 0, whatever the program is.
C19_GlyphsAndZeros ==
    state \in {"running", "panicked"} =>
        /\ \A digit \in 0..15, row \in 0..4 :
              MemRead(memory, 80 + 5 * digit + row) = FONT[5 * digit + row + 1]
        /\ \A a \in DOMAIN memory :
              \/ a \in 80..159
              \/ a \in 512..(512 + Len(program) - 1)
              \/ memory[a] = 0
        /\ DOMAIN memory \subseteq 0..4095

\* a program of the largest size has been loaded: it ends at the last byte
\* of memory, and the glyph of F ends at 0x9F
C19_Witness ==
    /\ state = "running"
    /\ Len(program) = 3584
    /\ MemRead(memory, 4095) # 0
    /\ MemRead(memory, 159) = 128
    /\ MemRead(memory, 160) = 0
    /\ MemRead(memory, 79) = 0

\* C20: every fatal condition of the run (an unsupported opcode, a
\* machine-code call, a return on an empty stack, a call on a full stack)
\* produces an error that carries the raw instruction word and the program
\* counter, and the errors of stack overflow and of stack underflow can be
\* told apart.  (A panic carries its message, `kind`, and what the message
\* formats; the message of the return on an empty stack names 00EE itself.)
C20_FatalErrorsCarryWordAndPc ==
    /\ (state = "panicked"
          /\ panic.kind \in {P_EMPTY_STACK, P_MACHINE_CALL, P_INVALID_8, P_INVALID_E}) =>
            /\ panic.kind # P_EMPTY_STACK => panic.instruction = instruction
            /\ "program_counter" \in DOMAIN panic
            /\ panic.program_counter \in {prev.program_counter, program_counter}
    /\ (Fetched(2) /\ Len(prev.stack) >= 16) =>
            (state = "panicked" /\ panic.kind # P_EMPTY_STACK)

\* C21: a cycle fetches the word memory[pc] * 256 + memory[pc + 1] and
\* advances pc by 2 before the handler runs: 1NNN leaves pc = NNN, 2NNN
\* pushes the advanced pc and leaves pc = NNN, an instruction that is not a
\* jump (1NNN, BNNN), a call, a return or a skip leaves pc = old pc + 2,
\* and a skip leaves old pc + 2 or old pc + 4.
C21_FetchAdvancesPc ==
    [][state = "running" =>
         LET word == MemRead(memory, program_counter) * 256
                        + MemRead(memory, program_counter + 1)
             op == OpOf(word)
         IN  /\ instruction' # NoInstruction => instruction' = word
             /\ state' = "running" =>
                  /\ instruction' = word
                  /\ op = 1 => program_counter' = NNNOf(word)
                  /\ op = 2 =>
                       /\ program_counter' = NNNOf(word)
                       /\ stack' = Append(stack, program_counter + 2)
                  /\ (op \notin {1, 2, 11, 3, 4, 5, 9, 14} /\ word # 238) =>
                       program_counter' = program_counter + 2
                  /\ op \in {3, 4, 5, 9, 14} =>
                       program_counter' \in
                           {program_counter + 2, program_counter + 4}]_vars

\* a 1NNN at 0x206 has left pc = 0x208 by its NNN; a 2NNN at 0x200 has
\* pushed 0x202
C21_Witness ==
    /\ Completed(1)
    /\ prev.program_counter = 518
    /\ program_counter = NNNOf(instruction)
    /\ prev.instruction # NoInstruction

C21_WitnessCall ==
    /\ Completed(2)
    /\ prev.program_counter = 512
    /\ stack = <<514>>
    /\ program_counter = NNNOf(instruction)
    /\ program_counter # 514

\* C22: 3XNN, 4XNN, 5XY0 and 9XY0 end their cycle with pc = old pc + 4 if
\* Vx = NN, Vx # NN, Vx = Vy, Vx # Vy respectively, and with pc = old pc + 2
\* if not; they change no register, no stack entry, no memory byte and no
\* display row (nor the index register).
C22_SkipsByCondition ==
    [][(/\ state = "running"
        /\ NextWord # NoInstruction
        /\ \/ OpOf(NextWord) \in {3, 4}
           \/ (OpOf(NextWord) \in {5, 9} /\ NOf(NextWord) = 0)) =>
          LET vx == variable_registers[XOf(NextWord)]
              vy == variable_registers[YOf(NextWord)]
              nn == NNOf(NextWord)
              taken == CASE OpOf(NextWord) = 3 -> vx = nn
                         [] OpOf(NextWord) = 4 -> vx # nn
                         [] OpOf(NextWord) = 5 -> vx = vy
                         [] OpOf(NextWord) = 9 -> vx # vy
          IN  /\ state' = "running"
              /\ program_counter' = program_counter + (IF taken THEN 4 ELSE 2)
              /\ UNCHANGED <<variable_registers, stack, memory, screen_pixels,
                             index_register, screen_updates>>]_vars

\* a 4XNN has skipped with Vx = 0 < NN = 1 ...
C22_Witness ==
    /\ Completed(4)
    /\ PrevVx = 0
    /\ NNOf(instruction) = 1
    /\ program_counter = prev.program_counter + 4

\* ... and a 9XY0 has not, Vx and Vy being equal and not 0
C22_WitnessNotTaken ==
    /\ Completed(9)
    /\ NOf(instruction) = 0
    /\ X # Y
    /\ PrevVx = 255
    /\ PrevVy = 255
    /\ program_counter = prev.program_counter + 2

\* the bits (63 = column 0) that sprite byte i of the last draw covers in
\* its display row: bit j of the byte, counted from its most significant
\* bit, at column x_start + j, for the columns up to 63
SpriteRowBits(i) ==
    {63 - ((PrevVx % 64) + j) : j \in
        {k \in 0..7 : /\ (PrevVx % 64) + k <= 63
                      /\ SpriteBit(memory, prev.index_register + i, k)}}

\* C23: DXYN draws from (Vx mod 64, Vy mod 32): for each i in 0..N-1 with
\* y_start + i <= 31, row y_start + i is XORed with byte memory[index + i],
\* its most significant bit at column x_start and its bits right of column
\* 63 clipped; rows past 31 are dropped, not wrapped, and no other row
\* changes.
C23_DrawXorsClipped ==
    Completed(13) =>
        LET y_start == PrevVy % 32
        IN  \A row \in 0..31 :
              screen_pixels[row] =
                IF row >= y_start /\ row < y_start + NOf(instruction)
                THEN (prev.screen_pixels[row] \ SpriteRowBits(row - y_start))
                     \cup (SpriteRowBits(row - y_start) \ prev.screen_pixels[row])
                ELSE prev.screen_pixels[row]

\* a draw from column 63 and row 29 of a sprite of 15 rows whose first byte
\* has bits for the columns past 63: three rows changed, the top row did not
C23_Witness ==
    /\ Completed(13)
    /\ PrevVx % 64 = 63
    /\ PrevVy % 32 = 29
    /\ NOf(instruction) = 15
    /\ \A row \in 29..31 : screen_pixels[row] # prev.screen_pixels[row]
    /\ screen_pixels[0] = prev.screen_pixels[0]
    /\ \E j \in 1..7 : SpriteBit(memory, prev.index_register, j)

\* C24: after DXYN, VF = 1 if at least one pixel that was set before the
\* draw was cleared by it, which is when a drawn row had a set bit in common
\* with its sprite mask, and VF = 0 if not, whatever VF held before; dropped
\* rows and clipped bits cause no collision.
C24_CollisionFlag ==
    Completed(13) =>
        LET cleared == \E row \in 0..31 :
                          prev.screen_pixels[row] \ screen_pixels[row] # {}
            common == \E i \in 0..(NOf(instruction) - 1) :
                         /\ (PrevVy % 32) + i <= 31
                         /\ SpriteRowBits(i) \cap
                               prev.screen_pixels[(PrevVy % 32) + i] # {}
        IN  /\ cleared <=> common
            /\ VF = IF cleared THEN 1 ELSE 0

\* a draw without collision right after a draw that left VF = 1
C24_Witness ==
    /\ Completed(13)
    /\ prev.instruction # NoInstruction
    /\ OpOf(prev.instruction) = 13
    /\ prev.variable_registers[15] = 1
    /\ VF = 0
    /\ screen_pixels # prev.screen_pixels

\* a draw whose sprite has rows past row 31 and bits past column 63 while
\* the display has pixels set in the top rows and in the left columns: no
\* collision
C24_WitnessClipped ==
    /\ Completed(13)
    /\ PrevVx % 64 = 63
    /\ PrevVy % 32 = 31
    /\ NOf(instruction) = 5
    /\ prev.screen_pixels[0] # {}
    /\ VF = 0

\* C25: in every reachable state of every loaded program the engine's
\* memory accesses are inside [0, 4096): the fetch reads memory[pc] and
\* memory[pc + 1] with pc + 1 <= 4095, and DXYN reads memory[index + i] with
\* index + i <= 4095; no access is attempted out of the array.
C25_AccessesInBounds ==
    /\ state = "running" => program_counter + 1 <= 4095
    /\ panic.kind # P_BOUNDS

\* C26: the display is all zero at machine start and right after every
\* 00E0, and every instruction other than 00E0 and DXYN leaves all 32 rows
\* as they were.
C26_DisplayChangesByClearAndDraw ==
    [][/\ (state = "new" /\ state' = "running") => screen_pixels' = ZeroScreen
       /\ (state = "running" /\ NextWord = 224) =>
             (state' = "running" /\ screen_pixels' = ZeroScreen)
       /\ (state = "running"
             /\ NextWord # 224
             /\ ~(NextWord # NoInstruction /\ OpOf(NextWord) = 13)) =>
             screen_pixels' = screen_pixels]_vars

\* a 00E0 has cleared a display that had pixels set in its top row
C26_Witness ==
    /\ state = "running"
    /\ instruction = 224
    /\ prev.screen_pixels[0] # {}
    /\ screen_pixels = ZeroScreen

\* C27: after any sequence of executed instructions memory is byte for byte
\* the memory initialisation produced: the glyph table and the program
\* image are never modified by the engine.
C27_MemoryNeverWritten ==
    state \in {"running", "panicked"} => memory = LoadedMemory(program)

\* an FX55 (the store of registers, were it implemented) has been executed
\* with V0 = 1, after two loads
C27_Witness ==
    /\ Completed(15)
    /\ NNOf(instruction) = 85
    /\ variable_registers[0] = 1
    /\ memory = LoadedMemory(program)

\* draws and a clear have been executed
C27_WitnessDraw ==
    /\ Completed(13)
    /\ Len(screen_updates) = 4
    /\ memory = LoadedMemory(program)

\* C28: for x other than F, 8XY6 sets VF to bit 0 of the old Vx and Vx to
\* the old Vx divided by 2, and 8XYE sets VF to bit 7 of the old Vx and Vx
\* to the old Vx times 2 mod 256.  Both shift Vx in place: the results do
\* not depend on Vy, and no register but Vx and VF is written.
C28_ShiftsInPlace ==
    /\ (FetchedAlu(6) /\ X # 15) =>
          /\ state = "running"
          /\ variable_registers =
               [prev.variable_registers EXCEPT ![15] = PrevVx % 2,
                                               ![X] = PrevVx \div 2]
    /\ (FetchedAlu(14) /\ X # 15) =>
          /\ state = "running"
          /\ variable_registers =
               [prev.variable_registers EXCEPT ![15] = PrevVx \div 128,
                                               ![X] = (PrevVx * 2) % 256]

\* 8XYE has shifted 255 to 254 with VF = 1, Vy being 1
C28_Witness ==
    /\ FetchedAlu(14)
    /\ X # 15 /\ Y # 15 /\ X # Y
    /\ PrevVx = 255
    /\ PrevVy = 1
    /\ Vx = 254
    /\ VF = 1
    /\ variable_registers[Y] = 1

\* 8XY6 has shifted 1 to 0 with VF = 1, Vy being 128
C28_WitnessRight ==
    /\ FetchedAlu(6)
    /\ X # 15 /\ Y # 15 /\ X # Y
    /\ PrevVx = 1
    /\ PrevVy = 128
    /\ Vx = 0
    /\ VF = 1

\* C29: every 8XYn with n in {8, 9, A, B, C, D, F} and every EXNN with NN
\* other than 9E and A1 ends the run with a fatal error that names the
\* instruction word, and changes no register, nor the stack, memory or
\* the display.
C29_InvalidAluAndKeyWordsAreFatal ==
    [][(/\ state = "running"
        /\ NextWord # NoInstruction
        /\ \/ OpOf(NextWord) = 8 /\ NOf(NextWord) \in {8, 9, 10, 11, 12, 13, 15}
           \/ OpOf(NextWord) = 14 /\ NNOf(NextWord) \notin {158, 161}) =>
          /\ state' = "panicked"
          /\ panic' = Panic(IF OpOf(NextWord) = 8 THEN P_INVALID_8
                            ELSE P_INVALID_E, NextWord)
          /\ instruction' = NextWord
          /\ UNCHANGED <<variable_registers, index_register, stack, memory,
                         screen_pixels, screen_updates>>]_vars

\* E09F has been fatal after a load of 1 into V0
C29_Witness ==
    /\ state = "panicked"
    /\ panic = Panic(P_INVALID_E, 57503)
    /\ instruction = 57503
    /\ variable_registers[0] = 1

\* 801D has been fatal
C29_WitnessAlu ==
    /\ state = "panicked"
    /\ panic = Panic(P_INVALID_8, 32797)
    /\ variable_registers[1] = 1

(***************************************************************************)
(* The paced engine and the sender of key events, on a keypad program and  *)
(* a drawing program.                                                      *)
(***************************************************************************)
PacePrograms ==
    {Asm(<<WI(6, 1, 15), WI(14, 1, 158), WI(6, 2, 1)>>),
     Asm(<<WA(10, 80), W(13, 0, 0, 5), WA(0, 224)>>)}

InitPace ==
    /\ state = "new"
    /\ program \in PacePrograms
    /\ init_error = NoError
    /\ memory = ZeroMemory
    /\ screen_pixels = <<>>
    /\ keypad_state = 0
    /\ program_counter = 0
    /\ index_register = 0
    /\ stack = <<>>
    /\ variable_registers = <<>>
    /\ instruction = NoInstruction
    /\ panic = NoPanic
    /\ cpu_io_events = <<>>
    /\ screen_updates = <<>>
    /\ receiver_alive = TRUE
    /\ prev = NoPrev
    /\ phase = "drain"
    /\ elapsed = 0
    /\ TimerNew(FALSE)
    /\ screen_texture = initial_pixels

NextPace == New \/ KeyEvent \/ TryRecv \/ PacedIteration \/ Pace \/ Wake

SpecPace == InitPace /\ [][NextPace]_vars

\* the fetch and the handler have an outcome (the fields after them, or a
\* panic) that the machine's fields alone determine: nothing is waited for
ExecuteCompletes ==
    \E random_byte \in RandomBytes, overflow_checks \in BOOLEAN :
       LET r == RunCycle(Cpu, <<>>, receiver_alive, random_byte,
                         overflow_checks)
       IN  /\ r.instruction = NextWord
           /\ r.events = <<>>
           /\ Len(r.sent) <= 1

\* the fields the opcode handlers work on
HandlerFields ==
    <<memory, screen_pixels, program_counter, index_register, stack,
      variable_registers, instruction, screen_updates>>

\* C30: every iteration of the engine loop is, in this order, the drain of
\* the pending events, one fetch with at most one handler, and the pacing
\* with at most one sleep.  The phases follow one another in that order
\* only; the keypad changes in the drain alone; the fetch is of the one word
\* at the program counter, its handler the only step that touches the
\* handlers' fields, sending at most one snapshot; the reading of the clock
\* changes nothing of the machine and leads to the sleep exactly when less
\* than the budget has elapsed, and otherwise straight to the next drain:
\* no sleep and no instruction lies between an overrun and the next cycle's
\* drain.  A running engine that is not asleep waits for nothing: the
\* drain's step can be taken on an empty channel as on a filled one, the
\* fetch and its handler come to their outcome from the machine's fields
\* alone, and the clock can always be read.
C30_IterationOrder ==
    /\ [](state = "running" =>
            /\ phase = "drain" => ENABLED TryRecv
            /\ phase = "execute" => ExecuteCompletes
            /\ phase = "pace" => ENABLED Pace)
    /\ [][/\ phase' # phase =>
                \/ phase = "drain" /\ phase' = "execute" /\ cpu_io_events = <<>>
                \/ phase = "execute" /\ phase' = "pace"
                \/ phase = "pace" /\ phase' = "sleep"
                      /\ elapsed' < duration_per_instruction
                \/ phase = "pace" /\ phase' = "drain"
                      /\ elapsed' >= duration_per_instruction
                \/ phase = "sleep" /\ phase' = "drain"
          /\ keypad_state' # keypad_state =>
                phase = "drain" /\ phase' = "drain"
                   /\ cpu_io_events # <<>> /\ cpu_io_events' = Tail(cpu_io_events)
          /\ HandlerFields' # HandlerFields /\ state = "running" =>
                /\ phase = "execute" /\ phase' = "pace"
                /\ instruction' = NextWord
                /\ prev' = Snapshot(Cpu, instruction)
                /\ Len(screen_updates') <= Len(screen_updates) + 1
                /\ \E random_byte \in RandomBytes, overflow_checks \in BOOLEAN :
                      Cpu' = RunCycle(Cpu, <<>>, receiver_alive, random_byte,
                                      overflow_checks).cpu
          /\ phase \in {"pace", "sleep"} =>
                Cpu' = Cpu /\ instruction' = instruction
                   /\ screen_updates' = screen_updates
                   /\ (cpu_io_events' = cpu_io_events
                         \/ phase' = phase)]_vars

\* the engine is in the cycle after an overrun: the clock read twice the
\* budget, and the next instruction has been fetched and executed since
C30_Witness ==
    /\ state = "running"
    /\ phase = "pace"
    /\ elapsed = 2 * duration_per_instruction
    /\ prev.instruction # NoInstruction
    /\ instruction # NoInstruction

\* the engine is asleep after a cycle that stayed within its budget
C30_WitnessSleep ==
    /\ state = "running"
    /\ phase = "sleep"
    /\ elapsed = duration_per_instruction - 1
    /\ instruction # NoInstruction

(***************************************************************************)
(* The engine beside a renderer that may go away at any moment.            *)
(***************************************************************************)
NextDrop == New \/ Cycle \/ HandleScreenUpdates \/ DropReceiver

SpecDrop == InitRender /\ [][NextDrop]_vars

\* the word the next cycle fetches is 00E0 or a DXYN
NextWordSends ==
    NextWord # NoInstruction /\ (NextWord = 224 \/ OpOf(NextWord) = 13)

\* C31: with the Receiver of the snapshot channel gone, the cycle that
\* fetches 00E0 or a DXYN ends the engine with the panic of the failed send,
\* nothing having been put into the channel; and once the engine has ended
\* so, its fields never change again.
C31_FailedSendIsFatal ==
    /\ [][state = "running" /\ ~receiver_alive /\ NextWordSends =>
             /\ state' = "panicked"
             /\ panic' = Panic(P_SEND, NoInstruction)
             /\ instruction' = NextWord
             /\ screen_updates' = screen_updates]_vars
    /\ [][panic.kind = P_SEND =>
             /\ state = "panicked" /\ state' = "panicked"
             /\ Cpu' = Cpu /\ instruction' = instruction /\ panic' = panic
             /\ screen_updates' = screen_updates]_vars

\* the engine has ended on the failed send of a DXYN, after an earlier draw
\* had been sent
C31_Witness ==
    /\ state = "panicked"
    /\ panic = Panic(P_SEND, NoInstruction)
    /\ ~receiver_alive
    /\ OpOf(instruction) = 13
    /\ OpOf(prev.instruction) = 6

\* the engine has ended on the failed send of 00E0
C31_WitnessClear ==
    /\ state = "panicked"
    /\ panic = Panic(P_SEND, NoInstruction)
    /\ ~receiver_alive
    /\ instruction = 224

\* C32: the mask 1 << key is computed for keys 0..15 only.  No run ends in
\* the panic of the overflowing shift; the drain of an event whose key is 16
\* or more leaves the keypad state as it was; and EX9E / EXA1 with Vx of 16
\* or more test no key's bit: EX9E does not skip and EXA1 skips, whatever
\* keys are held.
C32_MaskOnlyForKeys ==
    /\ [](panic.kind # P_SHIFT)
    /\ [][(/\ state = "running" /\ phase = "drain"
           /\ cpu_io_events # <<>>
           /\ Head(cpu_io_events).key >= 16
           /\ cpu_io_events' = Tail(cpu_io_events))
             => keypad_state' = keypad_state]_vars
    /\ []((Completed(14) /\ NNOf(instruction) \in {158, 161} /\ PrevVx >= 16)
             => program_counter = prev.program_counter
                                     + (IF NNOf(instruction) = 158 THEN 2 ELSE 4))

(***************************************************************************)
(* The engine beside the loop of a timer, nobody else holding the counter, *)
(* on programs with the FX words that name the timers.                     *)
(***************************************************************************)
TimerWordPrograms ==
    {Asm(<<WI(6, 0, 60), WI(15, 0, nn), WI(6, 1, 1)>>) : nn \in {7, 21, 24}}

InitCounters ==
    /\ state = "new"
    /\ program \in TimerWordPrograms
    /\ init_error = NoError
    /\ memory = ZeroMemory
    /\ screen_pixels = <<>>
    /\ keypad_state = 0
    /\ program_counter = 0
    /\ index_register = 0
    /\ stack = <<>>
    /\ variable_registers = <<>>
    /\ instruction = NoInstruction
    /\ panic = NoPanic
    /\ cpu_io_events = <<>>
    /\ screen_updates = <<>>
    /\ receiver_alive = TRUE
    /\ prev = NoPrev
    /\ phase = "drain"
    /\ elapsed = 0
    /\ \E sound \in BOOLEAN : TimerNew(sound)
    /\ screen_texture = initial_pixels

NextCounters ==
    New \/ Cycle \/ TimerRun \/ TimerLock \/ TimerDecrement \/ TimerSound
        \/ TimerSleep

SpecCounters == InitCounters /\ [][NextCounters]_vars

\* the first tick of the timer's loop has gone through its tone toggle
FirstTickDone ==
    timer_ticks >= 2 \/ (timer_ticks = 1 /\ timer_pc # "sound")

\* C33: no instruction of the engine reads or writes a countdown counter.
\* The counter of a timer, delay or sound, is 0 from its construction on in
\* every state of the engine running beside the timer's loop, and so is
\* every value the loop reads from it; no step of the engine changes
\* anything of the timer, and an FX word leaves every field of the engine
\* but the program counter as it was; and once the first tick of a sound
\* timer has gone through its toggle, the tone is paused for good.
C33_CountersStayZero ==
    /\ [](timer_value = 0 /\ current_value = 0)
    /\ []((timer_sound /\ FirstTickDone) => sink_paused)
    /\ []((state = "running" /\ instruction # NoInstruction
             /\ OpOf(instruction) = 15) =>
            /\ variable_registers = prev.variable_registers
            /\ index_register = prev.index_register
            /\ stack = prev.stack
            /\ screen_pixels = prev.screen_pixels
            /\ program_counter = prev.program_counter + 2)
    /\ [][cpuVars' # cpuVars => timerVars' = timerVars]_vars

\* the engine has executed FX18 with Vx = 60 beside a sound timer that has
\* ticked twice: the counter is 0 and the tone paused
C33_Witness ==
    /\ state = "running"
    /\ instruction = WI(15, 0, 24)
    /\ variable_registers[0] = 60
    /\ timer_sound
    /\ timer_ticks >= 2
    /\ timer_value = 0
    /\ sink_paused

\* the engine has executed FX07 beside a delay timer that has ticked, and
\* Vx still holds 60
C33_WitnessRead ==
    /\ state = "running"
    /\ instruction = WI(15, 0, 7)
    /\ variable_registers[0] = 60
    /\ ~timer_sound
    /\ timer_ticks >= 1

=============================================================================
